---- MODULE Spec2Model ----
(***************************************************************************)
(* Availability-monitoring engine of botmonik: the scheduler loop          *)
(* (monitoring_loop), its confirmation sequences, the session start/stop   *)
(* commands, the manual checks and the endpoint store they share; the      *)
(* endpoint commands (add, delete, toggle, reset), the layered probe       *)
(* check_server and the fan-out of notifications to the subscribers.       *)
(* Every await of the Python code is a step boundary: one action runs the  *)
(* code between two awaits.                                                 *)
(***************************************************************************)
EXTENDS Integers, Sequences, FiniteSets, TLC

(* ---------------- program constants ---------------- *)
FAIL_THRESHOLD == 3
CONFIRM_CHECKS == 2
DOWN_CHECKS == 2
NORMAL_INTERVAL == 60
FAST_INTERVAL == 15
BACKOFF == 5

(* ---------------- bounds of the model ---------------- *)
NumEndpoints == 2
MaxLoops == 2
NewChecks == 2
NumStarters == 2
MaxNotifs == 2
MaxCommands == 3
NumHosts == 2
NumPorts == 2
NumChats == 2

\* The store holds the streak a previous run of the bot left: one failure
\* short of the alert threshold.  Each endpoint records at most NewChecks
\* further checks.
PriorFailures == FAIL_THRESHOLD - 1
MaxChecks == PriorFailures + NewChecks

Endpoints == 1..NumEndpoints
LoopIds == 1..MaxLoops
StarterIds == 1..NumStarters
Hosts == 1..NumHosts
Ports == 1..NumPorts
Names == {"n", "m"}
Chats == 1..NumChats
Protocols == {"tcp", "udp", "TCP"}

VARIABLES
    monitoring_active,  \* bot.py global flag
    servers,            \* table servers: endpoint id -> row
    history,            \* table check_history: endpoint id -> rows by availability
    loop,               \* the monitoring_loop tasks created so far
    spawned,            \* number of asyncio.create_task(monitoring_loop()) calls
    starter,            \* cmd_start_monitoring handlers in flight
    reply,              \* what the last session command answered
    manual,             \* the manual check handler in flight
    notifs,             \* notifications delivered, per endpoint, oldest first
    run,                \* for each endpoint under observation: outcome and length
                        \* of the latest run of equal outcomes among the
                        \* scheduler's probes of it
    commands,           \* number of chat commands received so far
    identity,           \* table servers, columns name, host, port, protocol
    lastrowid,          \* sqlite_sequence of table servers (AUTOINCREMENT)
    foreign_keys,       \* PRAGMA foreign_keys of the connections
    check,              \* one check_server call, from its inputs to its result
    subscribers         \* table subscribers: the chat ids with is_active = 1

vars == <<monitoring_active, servers, history, loop, spawned, starter,
          reply, manual, notifs, run, commands, identity, lastrowid,
          foreign_keys, check, subscribers>>

catalog == <<identity, lastrowid, foreign_keys>>

session == <<monitoring_active, spawned, starter, reply, commands>>
store == <<servers, history>>

(* ---------------- database.py ---------------- *)

\* A row of table servers as CREATE TABLE fills it on INSERT.
Server(active) ==
    [is_active |-> active, last_status |-> TRUE, consecutive_failures |-> 0,
     notification_sent |-> FALSE, total_checks |-> 0, total_failures |-> 0]

\* The row after k failed checks in a row, none of them confirmed.
FailedServer(active, k) ==
    [Server(active) EXCEPT !.last_status = (k = 0), !.consecutive_failures = k,
                           !.total_checks = k, !.total_failures = k]

\* The identity columns of a row of table servers.
Identity(name, host, port, protocol) ==
    [name |-> name, host |-> host, port |-> port, protocol |-> protocol]

\* SELECT * FROM servers WHERE is_active = 1 ORDER BY id
RECURSIVE ActiveFrom(_, _)
ActiveFrom(tbl, k) ==
    IF k > NumEndpoints THEN <<>>
    ELSE (IF k \in DOMAIN tbl /\ tbl[k].is_active THEN <<k>> ELSE <<>>)
         \o ActiveFrom(tbl, k + 1)

get_active_servers(tbl) == ActiveFrom(tbl, 1)

\* update_server_status, first statement: the SELECT of the four columns.
ReadCounters(row) ==
    [consecutive_failures |-> row.consecutive_failures,
     notification_sent |-> row.notification_sent,
     total_checks |-> row.total_checks,
     total_failures |-> row.total_failures]

NoRead == ReadCounters(Server(TRUE))

\* update_server_status: the new streak length.
new_consecutive_failures(is_available, rd) ==
    IF is_available THEN 0 ELSE rd.consecutive_failures + 1

\* update_server_status: the new failure total.
new_total_failures(is_available, rd) ==
    IF is_available THEN rd.total_failures ELSE rd.total_failures + 1

\* a variant whose UPDATE also sets the alert flag from the outcome
WriteStatusAndFlag(row, is_available, rd) ==
    [row EXCEPT !.last_status = is_available,
                !.consecutive_failures = new_consecutive_failures(is_available, rd),
                !.total_checks = rd.total_checks + 1,
                !.total_failures = new_total_failures(is_available, rd),
                !.notification_sent = ~is_available]

\* update_server_status, the UPDATE: the counters are computed from the
\* values the SELECT returned, not from the row as it is now.
WriteStatus(row, is_available, rd) ==
    [row EXCEPT !.last_status = is_available,
                !.consecutive_failures = new_consecutive_failures(is_available, rd),
                !.total_checks = rd.total_checks + 1,
                !.total_failures = new_total_failures(is_available, rd)]

NoHistory == [ok |-> 0, fail |-> 0]

\* update_server_status, the UPDATE ... WHERE id = ?: no row, no change.
StatusWritten(tbl, id, is_available, rd) ==
    IF id \in DOMAIN tbl
    THEN [tbl EXCEPT ![id] = WriteStatus(@, is_available, rd)]
    ELSE tbl

\* the INSERT INTO check_history raises IntegrityError: the row of servers
\* is gone and the connection enforces FOREIGN KEY (server_id)
HistoryRejected(tbl, id, fk) == fk /\ id \notin DOMAIN tbl

\* update_server_status, the INSERT INTO check_history.
AppendHistory(h, is_available) ==
    IF is_available THEN [h EXCEPT !.ok = @ + 1] ELSE [h EXCEPT !.fail = @ + 1]

\* set_notification_sent
set_notification_sent(row, sent) == [row EXCEPT !.notification_sent = sent]

\* set_notification_sent, the UPDATE ... WHERE id = ?
FlagWritten(tbl, id, sent) ==
    IF id \in DOMAIN tbl
    THEN [tbl EXCEPT ![id] = set_notification_sent(@, sent)]
    ELSE tbl

\* a variant whose uniqueness constraint also covers the name
DuplicateByName(idt, name, host, port) ==
    \E x \in DOMAIN idt :
        idt[x].name = name /\ idt[x].host = host /\ idt[x].port = port

\* add_server: UNIQUE(host, port) makes the INSERT raise IntegrityError
Duplicate(idt, name, host, port) ==
    \E x \in DOMAIN idt : idt[x].host = host /\ idt[x].port = port

\* protocol.lower()
Lower(protocol) ==
    CASE protocol = "TCP" -> "tcp"
      [] protocol = "UDP" -> "udp"
      [] OTHER -> protocol

\* add_server, the INSERT: the table with one more row
Inserted(tbl, id, row) ==
    [x \in DOMAIN tbl \cup {id} |-> IF x = id THEN row ELSE tbl[x]]

\* remove_server, DELETE FROM servers WHERE id = ?
Deleted(tbl, id) == [x \in DOMAIN tbl \ {id} |-> tbl[x]]

\* remove_server: what ON DELETE CASCADE leaves of check_history
Cascaded(h, id, fk) == IF fk THEN [h EXCEPT ![id] = NoHistory] ELSE h

\* toggle_server
toggle_server(row) == [row EXCEPT !.is_active = ~@]

\* a variant whose UPDATE forgets the alert flag
reset_keeps_flag(row) ==
    [row EXCEPT !.total_checks = 0, !.total_failures = 0,
                !.consecutive_failures = 0]

\* a variant whose UPDATE leaves the streak in place
reset_keeps_streak(row) ==
    [row EXCEPT !.total_checks = 0, !.total_failures = 0,
                !.notification_sent = FALSE]

\* reset_server_stats, the UPDATE
reset_server_stats(row) ==
    [row EXCEPT !.total_checks = 0, !.total_failures = 0,
                !.consecutive_failures = 0, !.notification_sent = FALSE]

(* ---------------- monitor.py ---------------- *)

\* no check_server call under observation
NoCheck == [pc |-> "none"]

\* dataclass CheckResult; response_time is a measured time ("ms") or None
CheckResult(is_available, method, response_time, error) ==
    [is_available |-> is_available, method |-> method,
     response_time |-> response_time, error |-> error]

\* what the ping subprocess does: exits with 0, exits with another code, does
\* not exit within timeout + 2, or cannot be started
PingOutcomes == {"exit0", "nonzero", "timeout", "error"}

\* what asyncio.open_connection does within the timeout
TcpOutcomes == {"connected", "timeout", "refused", "oserror", "error"}

\* what the peer of the datagram does: its reply is in the receive queue when
\* recvfrom is called, arrives later, or never comes; or sendto raises
UdpOutcomes == {"reply_queued", "reply_later", "silence", "send_error"}

\* whether the default executor runs the recvfrom call within the timeout
ExecutorOutcomes == {"prompt", "stalled"}

check_ping(outcome) ==
    CASE outcome = "exit0" -> CheckResult(TRUE, "ping", "ms", "None")
      [] outcome = "nonzero" -> CheckResult(FALSE, "ping", "None", "Ping failed")
      [] outcome = "timeout" -> CheckResult(FALSE, "ping", "None", "Timeout")
      [] OTHER -> CheckResult(FALSE, "ping", "None", "str(e)")

check_tcp_port(outcome) ==
    CASE outcome = "connected" -> CheckResult(TRUE, "tcp", "ms", "None")
      [] outcome = "timeout" -> CheckResult(FALSE, "tcp", "None", "Connection timeout")
      [] outcome = "refused" -> CheckResult(FALSE, "tcp", "None", "Connection refused")
      [] outcome = "oserror" -> CheckResult(FALSE, "tcp", "None", "OS Error")
      [] OTHER -> CheckResult(FALSE, "tcp", "None", "str(e)")

\* check_udp_port.  The socket is non-blocking (sock.setblocking(False)), so
\* the recvfrom run by the executor returns the queued datagram or raises
\* BlockingIOError at once; asyncio.TimeoutError is raised only when the
\* executor has not run the call within the timeout.
check_udp_port(outcome, executor) ==
    CASE outcome = "send_error" -> CheckResult(FALSE, "udp", "None", "str(e)")
      [] executor = "stalled" -> CheckResult(TRUE, "udp", "ms", "None")
      [] outcome = "reply_queued" -> CheckResult(TRUE, "udp", "ms", "None")
      [] OTHER -> CheckResult(FALSE, "udp", "None", "str(e)")

\* a variant that goes on to the port check after a failed ping
PingNeverStops(ping_result) == FALSE

\* check_server: "if not ping_result.is_available: return ping_result"
PingStops(ping_result) == ~ping_result.is_available

\* check_server: 'if protocol.lower() == "tcp":' chooses the port check
PortLayer(protocol) == IF Lower(protocol) = "tcp" THEN "tcp" ELSE "udp"

\* a check_server call about to start: its arguments, what the network will
\* answer, and the streak stored for the endpoint
NewCheck(protocol, ping, tcp, udp, executor, streak) ==
    [pc |-> "ping", protocol |-> protocol, ping |-> ping, tcp |-> tcp,
     udp |-> udp, executor |-> executor, streak |-> streak, calls |-> <<>>,
     result |-> CheckResult(FALSE, "none", "None", "None")]

(* ---------------- bot.py: monitoring_loop ---------------- *)

NoUpd == [consecutive_failures |-> 0, notification_sent |-> FALSE]

\* A monitoring_loop task: its position, its locals (servers, the index of
\* "for server in servers", has_down_servers, result, the counters read by
\* update_server_status, updated_server, the i of the confirmation in
\* progress), and what it has observably done: failed and passed count the
\* outcomes of the confirmation probes of the current endpoint, slept is the
\* delay of the sleep it last started, stop_seen says that a stop request
\* arrived after it probed an endpoint of the current cycle.  In
\* send_notification_to_all, chats is its local "subscribers", sent lists the
\* chat ids bot.send_message was called for and lost those for which it
\* raised.  error is result.error of the cycle probe, latest the error of
\* the latest probe the loop made of the current endpoint, text_error the
\* error written into the text of the notification.
NoLoop == [pc |-> "none", servers |-> <<>>, idx |-> 0, has_down_servers |-> FALSE,
           result |-> TRUE, rd |-> NoRead, upd |-> NoUpd, i |-> 0,
           failed |-> 0, passed |-> 0, slept |-> 0, stop_seen |-> FALSE,
           chats |-> <<>>, sent |-> <<>>, lost |-> {},
           error |-> "None", latest |-> "None", text_error |-> "None"]

\* has_down_servers = any(s.consecutive_failures >= FAIL_THRESHOLD for s in servers)
has_down_servers(tbl, list) ==
    \E k \in 1..Len(list) : tbl[list[k]].consecutive_failures >= FAIL_THRESHOLD

\* the sleep that ends a cycle
CycleInterval(has_down) == IF has_down THEN FAST_INTERVAL ELSE NORMAL_INTERVAL

\* "if updated_server.notification_sent:" after a successful probe
NeedsRecoveryConfirm(upd) == upd.notification_sent

\* a variant that forgets the threshold test
NeedsDownConfirmAnyStreak(upd) == ~upd.notification_sent

\* "if consecutive_failures >= FAIL_THRESHOLD and not notification_sent:"
NeedsDownConfirm(upd) ==
    upd.consecutive_failures >= FAIL_THRESHOLD /\ ~upd.notification_sent

\* a variant that goes on after a failed confirmation probe
RecoveryNeverAborts(is_available) == FALSE

\* confirm_server_recovery: "if not result.is_available: return False"
RecoveryAborts(is_available) == ~is_available

\* a variant whose test is inverted
DownAbortsOnFailure(is_available) == ~is_available

\* a variant that goes on after a successful confirmation probe
DownNeverAborts(is_available) == FALSE

\* confirm_server_down: "if result.is_available: return False"
DownAborts(is_available) == is_available

\* "for i in range(checks)" of confirm_server_recovery is exhausted
RecoveryConfirmed(i) == i >= CONFIRM_CHECKS

\* "for i in range(checks)" of confirm_server_down is exhausted
DownConfirmed(i) == i >= DOWN_CHECKS

\* CheckResult.error of a failed check
Errors == {"Ping failed", "Connection refused"}

\* the error a probe of endpoint e can report; the detail is told apart only
\* for the endpoints under observation
ProbeErrors(log, e, is_available) ==
    IF is_available THEN {"None"}
    ELSE IF e \in DOMAIN log THEN Errors ELSE {"str(e)"}

\* the log of the scheduler's probes: extend the latest run or start a new one
Probed(r, is_available) ==
    IF r.n > 0 /\ r.ok = is_available
    THEN [r EXCEPT !.n = IF @ < FAIL_THRESHOLD + DOWN_CHECKS THEN @ + 1 ELSE @]
    ELSE [ok |-> is_available, n |-> 1]

\* the log after a scheduler probe of endpoint e
LogProbe(log, e, is_available) ==
    [x \in DOMAIN log |-> IF x = e THEN Probed(log[x], is_available) ELSE log[x]]

\* a variant in which the exception ends the task
FaultEndsTask(lp) == "done"

\* where "except Exception as e:" leaves the task
FaultTarget(lp) == "backoff"

Cur(l) == loop[l].servers[loop[l].idx]

\* end of one pass of "for server in servers", after asyncio.sleep(0.5)
NextServer(lp) ==
    [lp EXCEPT !.pc = IF lp.idx < Len(lp.servers) THEN "probe" ELSE "sleep",
               !.idx = @ + 1, !.result = TRUE, !.upd = NoUpd,
               !.i = 0, !.failed = 0, !.passed = 0,
               !.chats = <<>>, !.sent = <<>>, !.lost = {},
               !.error = "None", !.latest = "None", !.text_error = "None"]

\* "while monitoring_active:" and "servers = await db.get_active_servers()"
LoopCycle(l) ==
    /\ loop[l].pc = "cycle"
    /\ IF ~monitoring_active
       THEN loop' = [loop EXCEPT ![l] = [NoLoop EXCEPT !.pc = "done"]]
       ELSE LET list == get_active_servers(servers) IN
            loop' = [loop EXCEPT ![l] =
                       [NoLoop EXCEPT !.servers = list, !.idx = 1,
                                      !.has_down_servers = has_down_servers(servers, list),
                                      !.pc = IF list = <<>> THEN "sleep" ELSE "probe"]]
    /\ UNCHANGED <<session, store, manual, notifs, run>>
    /\ UNCHANGED <<catalog, check, subscribers>>

\* a variant whose for loop does not test the flag
NeverBreaks(active) == FALSE

\* "if not monitoring_active: break"
Breaks(active) == ~active

\* "if not monitoring_active: break" and "result = await check_server(...)"
LoopProbe(l) ==
    /\ loop[l].pc = "probe"
    /\ IF Breaks(monitoring_active)
       THEN /\ loop' = [loop EXCEPT ![l].pc = "sleep"]
            /\ UNCHANGED run
       ELSE /\ Cur(l) \in DOMAIN servers => servers[Cur(l)].total_checks < MaxChecks
            /\ \E is_available \in BOOLEAN :
                 \E error \in ProbeErrors(run, Cur(l), is_available) :
                 /\ loop' = [loop EXCEPT ![l].result = is_available,
                                         ![l].error = error,
                                         ![l].latest = error,
                                         ![l].pc = "upd_read"]
                 /\ run' = LogProbe(run, Cur(l), is_available)
    /\ UNCHANGED <<session, store, manual, notifs>>
    /\ UNCHANGED <<catalog, check, subscribers>>

\* update_server_status: the SELECT
LoopUpdRead(l) ==
    /\ loop[l].pc = "upd_read"
    /\ loop' = IF Cur(l) \in DOMAIN servers
               THEN [loop EXCEPT ![l].rd = ReadCounters(servers[Cur(l)]),
                                 ![l].pc = "upd_write"]
               ELSE [loop EXCEPT ![l].pc = "get"]
    /\ UNCHANGED <<session, store, manual, notifs, run>>
    /\ UNCHANGED <<catalog, check, subscribers>>

\* update_server_status: UPDATE, INSERT and commit
LoopUpdWrite(l) ==
    /\ loop[l].pc = "upd_write"
    /\ IF HistoryRejected(servers, Cur(l), foreign_keys)
       THEN /\ loop' = [loop EXCEPT ![l] = [NoLoop EXCEPT !.pc = FaultTarget(loop[l])]]
            /\ UNCHANGED store
       ELSE /\ servers' = StatusWritten(servers, Cur(l), loop[l].result, loop[l].rd)
            /\ history' = [history EXCEPT ![Cur(l)] = AppendHistory(@, loop[l].result)]
            /\ loop' = [loop EXCEPT ![l].rd = NoRead, ![l].pc = "get"]
    /\ UNCHANGED <<session, manual, notifs, run>>
    /\ UNCHANGED <<catalog, check, subscribers>>

\* "updated_server = await db.get_server(server.id)" and the two branches
LoopGet(l) ==
    /\ loop[l].pc = "get"
    /\ IF Cur(l) \notin DOMAIN servers
       THEN \* get_server returns None: AttributeError, caught by the loop
            loop' = [loop EXCEPT ![l] = [NoLoop EXCEPT !.pc = FaultTarget(loop[l])]]
       ELSE
       LET row == servers[Cur(l)]
           upd == [consecutive_failures |-> row.consecutive_failures,
                   notification_sent |-> row.notification_sent]
       IN  loop' = [loop EXCEPT ![l] =
             IF loop[l].result
             THEN IF NeedsRecoveryConfirm(upd)
                  THEN [@ EXCEPT !.upd = upd, !.pc = "confirm_up"]
                  ELSE NextServer(@)
             ELSE IF NeedsDownConfirm(upd)
                  THEN [@ EXCEPT !.upd = upd, !.pc = "confirm_down"]
                  ELSE NextServer(@)]
    /\ UNCHANGED <<session, store, manual, notifs, run>>
    /\ UNCHANGED <<catalog, check, subscribers>>

\* confirm_server_recovery: one pass of "for i in range(checks)"
LoopConfirmUp(l) ==
    /\ loop[l].pc = "confirm_up"
    /\ \E is_available \in BOOLEAN :
         \E error \in ProbeErrors(run, Cur(l), is_available) :
         /\ run' = LogProbe(run, Cur(l), is_available)
         /\ loop' = [loop EXCEPT ![l] =
              IF RecoveryAborts(is_available)
              THEN NextServer(@)
              ELSE [@ EXCEPT !.i = @ + 1,
                             !.latest = error,
                             !.passed = IF is_available THEN @ + 1 ELSE @,
                             !.failed = IF is_available THEN @ ELSE @ + 1,
                             !.pc = IF RecoveryConfirmed(loop[l].i + 1)
                                    THEN "send_up" ELSE "confirm_up"]]
    /\ UNCHANGED <<session, store, manual, notifs>>
    /\ UNCHANGED <<catalog, check, subscribers>>

\* confirm_server_down: one pass of "for i in range(checks)"
LoopConfirmDown(l) ==
    /\ loop[l].pc = "confirm_down"
    /\ \E is_available \in BOOLEAN :
         \E error \in ProbeErrors(run, Cur(l), is_available) :
         /\ run' = LogProbe(run, Cur(l), is_available)
         /\ loop' = [loop EXCEPT ![l] =
              IF DownAborts(is_available)
              THEN NextServer(@)
              ELSE [@ EXCEPT !.i = @ + 1,
                             !.latest = error,
                             !.passed = IF is_available THEN @ + 1 ELSE @,
                             !.failed = IF is_available THEN @ ELSE @ + 1,
                             !.pc = IF DownConfirmed(loop[l].i + 1)
                                    THEN "send_down" ELSE "confirm_down"]]
    /\ UNCHANGED <<session, store, manual, notifs>>
    /\ UNCHANGED <<catalog, check, subscribers>>

\* what send_recovery_notification / send_down_notification deliver
Delivered(log, kind) == Append(log, kind)

DbSteps == {"upd_read", "upd_write", "get", "send_up", "send_down",
            "set_false", "set_true"}

\* get_subscribers, "SELECT chat_id FROM subscribers WHERE is_active = 1":
\* the active chat ids, each once, in the order the database returns them
SubscriberLists(subs) ==
    {order \in [1..Cardinality(subs) -> subs] :
        \A a, b \in 1..Cardinality(subs) : order[a] = order[b] => a = b}

\* the database call of the task the loop is at raises
MayFault(lp) ==
    /\ lp.pc \in DbSteps
    /\ lp.pc \in {"send_up", "send_down"} => lp.chats = <<>>

\* a variant in which a failed delivery leaves send_notification_to_all
DeliveryFailureRaises(ok) == ~ok

\* "except Exception as e:" around bot.send_message: nothing is raised
DeliveryRaises(ok) == FALSE

\* send_down_notification(updated_server, result): "Ошибка: {result.error}",
\* result being the local of monitoring_loop; the recovery text has no error
TextError(lp) == IF lp.pc = "send_down" THEN lp.error ELSE "None"

\* send_notification_to_all with no subscriber: the for loop has no pass
Completed(l) ==
    /\ notifs' = [notifs EXCEPT ![Cur(l)] =
                    Delivered(@, IF loop[l].pc = "send_up" THEN "up" ELSE "down")]
    /\ loop' = [loop EXCEPT ![l].text_error = TextError(loop[l]),
                            ![l].pc = IF loop[l].pc = "send_up"
                                      THEN "set_false" ELSE "set_true"]

\* send_recovery_notification / send_down_notification -> send_notification_to_all:
\* "subscribers = await db.get_subscribers()"
LoopSend(l) ==
    /\ loop[l].pc \in {"send_up", "send_down"}
    /\ loop[l].chats = <<>>
    /\ Len(notifs[Cur(l)]) < MaxNotifs
    /\ IF subscribers = {}
       THEN Completed(l)
       ELSE /\ \E order \in SubscriberLists(subscribers) :
                 loop' = [loop EXCEPT ![l].chats = order,
                                      ![l].text_error = TextError(loop[l])]
            /\ UNCHANGED notifs
    /\ UNCHANGED <<session, store, manual, run>>
    /\ UNCHANGED <<catalog, check, subscribers>>

\* send_notification_to_all: one pass of "for chat_id in subscribers"
LoopDeliver(l) ==
    /\ loop[l].pc \in {"send_up", "send_down"}
    /\ loop[l].chats # <<>>
    /\ Len(notifs[Cur(l)]) < MaxNotifs
    /\ \E ok \in BOOLEAN :
         LET chat_id == loop[l].chats[Len(loop[l].sent) + 1]
             last == Len(loop[l].sent) + 1 = Len(loop[l].chats)
         IN  IF DeliveryRaises(ok)
             THEN /\ loop' = [loop EXCEPT ![l] = [NoLoop EXCEPT !.pc = FaultTarget(loop[l])]]
                  /\ UNCHANGED notifs
             ELSE IF last
             THEN /\ notifs' = [notifs EXCEPT ![Cur(l)] =
                        Delivered(@, IF loop[l].pc = "send_up" THEN "up" ELSE "down")]
                  /\ loop' = [loop EXCEPT
                        ![l].sent = Append(@, chat_id),
                        ![l].lost = IF ok THEN @ ELSE @ \cup {chat_id},
                        ![l].pc = IF loop[l].pc = "send_up" THEN "set_false" ELSE "set_true"]
             ELSE /\ loop' = [loop EXCEPT
                        ![l].sent = Append(@, chat_id),
                        ![l].lost = IF ok THEN @ ELSE @ \cup {chat_id}]
                  /\ UNCHANGED notifs
    /\ UNCHANGED <<session, store, manual, run>>
    /\ UNCHANGED <<catalog, check, subscribers>>

\* db.set_notification_sent(server.id, False / True), then asyncio.sleep(0.5)
LoopSetFlag(l) ==
    /\ loop[l].pc \in {"set_false", "set_true"}
    /\ servers' = FlagWritten(servers, Cur(l), loop[l].pc = "set_true")
    /\ loop' = [loop EXCEPT ![l] = NextServer(@)]
    /\ UNCHANGED <<session, history, manual, notifs, run>>
    /\ UNCHANGED <<catalog, check, subscribers>>

\* "await asyncio.sleep(FAST_INTERVAL)" or "await asyncio.sleep(NORMAL_INTERVAL)"
LoopSleep(l) ==
    /\ loop[l].pc = "sleep"
    /\ loop' = [loop EXCEPT ![l] =
                  [@ EXCEPT !.slept = CycleInterval(loop[l].has_down_servers),
                            !.pc = "cycle"]]
    /\ UNCHANGED <<session, store, manual, notifs, run>>
    /\ UNCHANGED <<catalog, check, subscribers>>

\* an awaited database call raises; "except Exception as e:" catches it
LoopFault(l) ==
    /\ \/ MayFault(loop[l])
       \/ loop[l].pc = "cycle" /\ monitoring_active
    /\ loop' = [loop EXCEPT ![l] = [NoLoop EXCEPT !.pc = FaultTarget(loop[l])]]
    /\ UNCHANGED <<session, store, manual, notifs, run>>
    /\ UNCHANGED <<catalog, check, subscribers>>

\* "await asyncio.sleep(5)" in the exception handler
LoopBackoff(l) ==
    /\ loop[l].pc = "backoff"
    /\ loop' = [loop EXCEPT ![l].slept = BACKOFF, ![l].pc = "cycle"]
    /\ UNCHANGED <<session, store, manual, notifs, run>>
    /\ UNCHANGED <<catalog, check, subscribers>>

(* ---------------- bot.py: session commands ---------------- *)

IdleStarter == "idle"

\* cmd_start_monitoring: "if monitoring_active:" answers and returns
StartGuard(active) == active

\* cmd_start_monitoring up to "servers = await db.get_active_servers()"
StartCheck(h) ==
    /\ commands < MaxCommands
    /\ commands' = commands + 1
    /\ starter[h] = "idle"
    /\ IF StartGuard(monitoring_active)
       THEN /\ reply' = "already"
            /\ UNCHANGED starter
       ELSE /\ starter' = [starter EXCEPT ![h] = "fetch"]
            /\ UNCHANGED reply
    /\ UNCHANGED <<monitoring_active, spawned, store, loop, manual, notifs, run>>
    /\ UNCHANGED <<catalog, check, subscribers>>

\* cmd_start_monitoring after the await: "if not servers:" or start the loop
StartFetch(h) ==
    /\ starter[h] = "fetch"
    /\ starter' = [starter EXCEPT ![h] = "idle"]
    /\ IF get_active_servers(servers) = <<>>
       THEN /\ reply' = "no_servers"
            /\ UNCHANGED <<monitoring_active, loop, spawned>>
       ELSE /\ spawned < MaxLoops
            /\ monitoring_active' = TRUE
            /\ spawned' = spawned + 1
            /\ loop' = [loop EXCEPT ![spawned + 1] = [NoLoop EXCEPT !.pc = "cycle"]]
            /\ reply' = "started"
    /\ UNCHANGED <<commands, store, manual, notifs, run>>
    /\ UNCHANGED <<catalog, check, subscribers>>

MidScan == {"probe", "upd_read", "upd_write", "get", "confirm_up", "confirm_down",
            "send_up", "send_down", "set_false", "set_true"}

\* cmd_stop_monitoring
Stop ==
    /\ commands < MaxCommands
    /\ commands' = commands + 1
    /\ IF ~monitoring_active
       THEN /\ reply' = "not_running"
            /\ UNCHANGED <<monitoring_active, loop>>
       ELSE /\ monitoring_active' = FALSE
            /\ reply' = "stopped"
            /\ loop' = [l \in LoopIds |->
                          IF loop[l].pc \in MidScan /\ ~(loop[l].pc = "probe" /\ loop[l].idx = 1)
                          THEN [loop[l] EXCEPT !.stop_seen = TRUE] ELSE loop[l]]
    /\ UNCHANGED <<spawned, starter, store, manual, notifs, run>>
    /\ UNCHANGED <<catalog, check, subscribers>>

(* ---------------- bot.py: manual checks ---------------- *)

IdleManual == [pc |-> "idle", queue |-> <<>>, result |-> TRUE, rd |-> NoRead]

\* the handler after update_server_status: the next server of cmd_check_all,
\* or the end of the handler
ManualNext(m) ==
    IF Len(m.queue) > 1
    THEN [IdleManual EXCEPT !.pc = "probe", !.queue = Tail(m.queue)]
    ELSE IdleManual

\* callback_check_server: "server = await db.get_server(server_id)"
CheckOne(e) ==
    /\ commands < MaxCommands
    /\ commands' = commands + 1
    /\ manual.pc = "idle"
    /\ manual' = IF e \in DOMAIN servers
                 THEN [IdleManual EXCEPT !.pc = "probe", !.queue = <<e>>]
                 ELSE IdleManual
    /\ UNCHANGED <<monitoring_active, spawned, starter, reply, store, loop,
                   notifs, run>>
    /\ UNCHANGED <<catalog, check, subscribers>>

\* cmd_check_all: "servers = await db.get_active_servers()", "if not servers:"
CheckAll ==
    /\ commands < MaxCommands
    /\ commands' = commands + 1
    /\ manual.pc = "idle"
    /\ LET list == get_active_servers(servers) IN
       manual' = IF list = <<>> THEN IdleManual
                 ELSE [IdleManual EXCEPT !.pc = "probe", !.queue = list]
    /\ UNCHANGED <<monitoring_active, spawned, starter, reply, store, loop,
                   notifs, run>>
    /\ UNCHANGED <<catalog, check, subscribers>>

\* "result = await check_server(...)" of either manual check
ManualProbe ==
    /\ manual.pc = "probe"
    /\ Head(manual.queue) \in DOMAIN servers
         => servers[Head(manual.queue)].total_checks < MaxChecks
    /\ \E is_available \in BOOLEAN :
         manual' = [manual EXCEPT !.result = is_available, !.pc = "read"]
    /\ UNCHANGED <<session, store, loop, notifs, run>>
    /\ UNCHANGED <<catalog, check, subscribers>>

\* update_server_status called by a manual check: the SELECT
ManualRead ==
    /\ manual.pc = "read"
    /\ manual' = IF Head(manual.queue) \in DOMAIN servers
                 THEN [manual EXCEPT !.rd = ReadCounters(servers[Head(manual.queue)]),
                                     !.pc = "write"]
                 ELSE ManualNext(manual)
    /\ UNCHANGED <<session, store, loop, notifs, run>>
    /\ UNCHANGED <<catalog, check, subscribers>>

\* update_server_status called by a manual check: UPDATE, INSERT and commit
ManualWrite ==
    /\ manual.pc = "write"
    /\ LET e == Head(manual.queue) IN
         IF HistoryRejected(servers, e, foreign_keys)
         THEN \* IntegrityError ends the handler, nothing is committed
              /\ manual' = IdleManual
              /\ UNCHANGED store
         ELSE /\ servers' = StatusWritten(servers, e, manual.result, manual.rd)
              /\ history' = [history EXCEPT ![e] = AppendHistory(@, manual.result)]
              /\ manual' = ManualNext(manual)
    /\ UNCHANGED <<session, loop, notifs, run>>
    /\ UNCHANGED <<catalog, check, subscribers>>

(* ---------------- bot.py: subscriptions ---------------- *)

\* cmd_subscribe (and cmd_start): db.add_subscriber(message.chat.id)
Subscribe(chat_id) ==
    /\ commands < MaxCommands
    /\ commands' = commands + 1
    /\ subscribers' = subscribers \cup {chat_id}
    /\ UNCHANGED <<monitoring_active, spawned, starter, reply, store, loop,
                   manual, notifs, run, catalog, check>>

\* cmd_unsubscribe: db.remove_subscriber(message.chat.id)
Unsubscribe(chat_id) ==
    /\ commands < MaxCommands
    /\ commands' = commands + 1
    /\ subscribers' = subscribers \ {chat_id}
    /\ UNCHANGED <<monitoring_active, spawned, starter, reply, store, loop,
                   manual, notifs, run, catalog, check>>

(* ---------------- monitor.py: check_server ---------------- *)

\* "ping_result = await check_ping(host)" and the early return
CheckPing ==
    /\ check.pc = "ping"
    /\ LET ping_result == check_ping(check.ping) IN
       check' = [check EXCEPT !.calls = Append(@, "ping"),
                              !.result = ping_result,
                              !.pc = IF PingStops(ping_result) THEN "done" ELSE "port"]
    /\ UNCHANGED <<session, store, loop, manual, notifs, run, catalog, subscribers>>

\* "return await check_tcp_port(host, port)" or check_udp_port
CheckPort ==
    /\ check.pc = "port"
    /\ check' = [check EXCEPT
                   !.calls = Append(@, PortLayer(check.protocol)),
                   !.result = IF PortLayer(check.protocol) = "tcp"
                              THEN check_tcp_port(check.tcp)
                              ELSE check_udp_port(check.udp, check.executor),
                   !.pc = "done"]
    /\ UNCHANGED <<session, store, loop, manual, notifs, run, catalog, subscribers>>

\* the caller records the result: update_server_status computes the streak
CheckRecorded ==
    /\ check.pc = "done"
    /\ check' = [check EXCEPT
                   !.streak = new_consecutive_failures(check.result.is_available,
                                  [consecutive_failures |-> check.streak]),
                   !.pc = "recorded"]
    /\ UNCHANGED <<session, store, loop, manual, notifs, run, catalog, subscribers>>

(* ---------------- bot.py: endpoint commands ---------------- *)

\* callback_toggle_server
Toggle(e) ==
    /\ commands < MaxCommands
    /\ commands' = commands + 1
    /\ servers' = IF e \in DOMAIN servers
                  THEN [servers EXCEPT ![e] = toggle_server(@)]
                  ELSE servers
    /\ UNCHANGED <<monitoring_active, spawned, starter, reply, history, loop,
                   manual, notifs, run>>
    /\ UNCHANGED <<catalog, check, subscribers>>

\* callback_reset_stats
Reset(e) ==
    /\ commands < MaxCommands
    /\ commands' = commands + 1
    /\ servers' = IF e \in DOMAIN servers
                  THEN [servers EXCEPT ![e] = reset_server_stats(@)]
                  ELSE servers
    /\ history' = [history EXCEPT ![e] = NoHistory]
    /\ UNCHANGED <<monitoring_active, spawned, starter, reply, loop, manual,
                   notifs, run>>
    /\ UNCHANGED <<catalog, check, subscribers>>

\* process_protocol: db.add_server(name, host, port, protocol)
AddServer(name, host, port, protocol) ==
    /\ commands < MaxCommands
    /\ commands' = commands + 1
    /\ IF Duplicate(identity, name, host, port)
       THEN /\ reply' = "exists"
            /\ UNCHANGED <<servers, identity, lastrowid>>
       ELSE /\ lastrowid < NumEndpoints
            /\ lastrowid' = lastrowid + 1
            /\ servers' = Inserted(servers, lastrowid + 1, Server(TRUE))
            /\ identity' = Inserted(identity, lastrowid + 1,
                                    Identity(name, host, port, Lower(protocol)))
            /\ reply' = "added"
    /\ UNCHANGED <<monitoring_active, spawned, starter, history, loop, manual,
                   notifs, run, foreign_keys, check, subscribers>>

\* callback_confirm_delete: db.remove_server(server_id)
RemoveServer(id) ==
    /\ commands < MaxCommands
    /\ commands' = commands + 1
    /\ IF id \in DOMAIN servers
       THEN /\ servers' = Deleted(servers, id)
            /\ identity' = Deleted(identity, id)
            /\ history' = Cascaded(history, id, foreign_keys)
            /\ reply' = "removed"
       ELSE /\ reply' = "remove_failed"
            /\ UNCHANGED <<servers, identity, history>>
    /\ UNCHANGED <<monitoring_active, spawned, starter, lastrowid, loop, manual,
                   notifs, run, foreign_keys, check, subscribers>>

(* ---------------- specifications ---------------- *)

\* The store as a previous run of the bot left it: the endpoints of
\* "actives" are enabled, the others were added and then toggled off.
InitStore(actives, observed) ==
    /\ servers = [e \in Endpoints |-> FailedServer(e \in actives, PriorFailures)]
    /\ history = [e \in Endpoints |-> [ok |-> 0, fail |-> PriorFailures]]
    /\ run = [e \in observed |-> [ok |-> FALSE, n |-> PriorFailures]]
    /\ notifs = [e \in Endpoints |-> <<>>]
    /\ manual = IdleManual
    /\ starter = [h \in StarterIds |-> IdleStarter]
    /\ identity = [e \in Endpoints |-> Identity("n", e, 1, "tcp")]
    /\ lastrowid = NumEndpoints
    /\ foreign_keys = FALSE
    /\ check = NoCheck
    /\ subscribers = {1}

\* the bot after main(): no session
InitWith(actives, observed) ==
    /\ InitStore(actives, observed)
    /\ monitoring_active = FALSE
    /\ loop = [l \in LoopIds |-> NoLoop]
    /\ spawned = 0
    /\ reply = "none"
    /\ commands = 0

\* the bot after main() on a new database file; the connections enforce
\* foreign keys or not, as the SQLite library was built
InitFresh ==
    /\ servers = [e \in {} |-> Server(TRUE)]
    /\ identity = [e \in {} |-> Identity("n", 1, 1, "tcp")]
    /\ lastrowid = 0
    /\ foreign_keys \in BOOLEAN
    /\ history = [e \in Endpoints |-> NoHistory]
    /\ run = [e \in {} |-> [ok |-> TRUE, n |-> 0]]
    /\ notifs = [e \in Endpoints |-> <<>>]
    /\ manual = IdleManual
    /\ starter = [h \in StarterIds |-> IdleStarter]
    /\ check = NoCheck
    /\ subscribers = {}
    /\ monitoring_active = FALSE
    /\ loop = [l \in LoopIds |-> NoLoop]
    /\ spawned = 0
    /\ reply = "none"
    /\ commands = 0

\* one check_server call on an endpoint of the store a previous run left:
\* any protocol, any answer of the network
InitProbe ==
    /\ servers = [e \in Endpoints |-> FailedServer(TRUE, PriorFailures)]
    /\ identity = [e \in Endpoints |-> Identity("n", e, 1, "tcp")]
    /\ lastrowid = NumEndpoints
    /\ foreign_keys = FALSE
    /\ history = [e \in Endpoints |-> [ok |-> 0, fail |-> PriorFailures]]
    /\ run = [e \in {} |-> [ok |-> TRUE, n |-> 0]]
    /\ notifs = [e \in Endpoints |-> <<>>]
    /\ manual = IdleManual
    /\ starter = [h \in StarterIds |-> IdleStarter]
    /\ subscribers = {1}
    /\ monitoring_active = FALSE
    /\ loop = [l \in LoopIds |-> NoLoop]
    /\ spawned = 0
    /\ reply = "none"
    /\ commands = 0
    /\ \E protocol \in Protocols, ping \in PingOutcomes, tcp \in TcpOutcomes,
          udp \in UdpOutcomes, executor \in ExecutorOutcomes,
          streak \in {0, PriorFailures} :
         check = NewCheck(protocol, ping, tcp, udp, executor, streak)

\* the bot once a start command has created the scheduler loop
InitRunning(actives, observed) ==
    /\ InitStore(actives, observed)
    /\ monitoring_active = TRUE
    /\ loop = [l \in LoopIds |-> IF l = 1 THEN [NoLoop EXCEPT !.pc = "cycle"] ELSE NoLoop]
    /\ spawned = 1
    /\ reply = "started"
    /\ commands = 1

Init == \E actives \in SUBSET Endpoints : InitWith(actives, Endpoints)

LoopStep(l) ==
    \/ LoopCycle(l)
    \/ LoopProbe(l)
    \/ LoopUpdRead(l)
    \/ LoopUpdWrite(l)
    \/ LoopGet(l)
    \/ LoopConfirmUp(l)
    \/ LoopConfirmDown(l)
    \/ LoopSend(l)
    \/ LoopDeliver(l)
    \/ LoopSetFlag(l)
    \/ LoopSleep(l)

Next ==
    \/ \E l \in LoopIds : LoopStep(l)
    \/ \E l \in LoopIds : LoopFault(l)
    \/ \E l \in LoopIds : LoopBackoff(l)
    \/ \E h \in StarterIds : StartCheck(h)
    \/ \E h \in StarterIds : StartFetch(h)
    \/ Stop
    \/ \E e \in Endpoints : CheckOne(e)
    \/ CheckAll
    \/ ManualProbe
    \/ ManualRead
    \/ ManualWrite
    \/ \E e \in Endpoints : Toggle(e)
    \/ \E e \in Endpoints : Reset(e)
    \/ \E name \in Names, host \in Hosts, port \in Ports, protocol \in Protocols :
         AddServer(name, host, port, protocol)
    \/ \E e \in Endpoints : RemoveServer(e)
    \/ CheckPing
    \/ CheckPort
    \/ CheckRecorded
    \/ \E c \in Chats : Subscribe(c)
    \/ \E c \in Chats : Unsubscribe(c)

Spec == Init /\ [][Next]_vars

\* the session commands and the scheduler loops, one endpoint enabled or none
NextRace ==
    \/ \E l \in LoopIds : LoopStep(l)
    \/ \E h \in StarterIds : StartCheck(h)
    \/ \E h \in StarterIds : StartFetch(h)
    \/ Stop

SpecRace == (\E actives \in SUBSET {1} : InitWith(actives, {})) /\ [][NextRace]_vars

\* one scheduler loop on one enabled endpoint, with the manual check, the
\* statistics reset, the stop command and database faults
NextAlert ==
    \/ \E l \in LoopIds : LoopStep(l)
    \/ \E l \in LoopIds : LoopFault(l)
    \/ \E l \in LoopIds : LoopBackoff(l)
    \/ Stop
    \/ CheckAll
    \/ ManualProbe
    \/ ManualRead
    \/ ManualWrite
    \/ \E e \in {1} : Reset(e)

SpecAlert == InitRunning({1}, {1}) /\ [][NextAlert]_vars

\* a running session on every endpoint, with the session commands
NextScan ==
    \/ \E l \in LoopIds : LoopStep(l)
    \/ \E h \in StarterIds : StartCheck(h)
    \/ \E h \in StarterIds : StartFetch(h)
    \/ Stop

SpecScan == InitRunning(Endpoints, {}) /\ [][NextScan]_vars

\* one scheduler loop on endpoint 1 with the manual checks of both endpoints
\* (endpoint 2 is disabled) and the stop command: every writer of the
\* counters, no reset and no fault
NextRecord ==
    \/ \E l \in LoopIds : LoopStep(l)
    \/ Stop
    \/ \E e \in Endpoints : CheckOne(e)
    \/ CheckAll
    \/ ManualProbe
    \/ ManualRead
    \/ ManualWrite

SpecRecord == InitRunning({1}, {}) /\ [][NextRecord]_vars

\* the endpoint commands on a new database: add, check, toggle, reset, delete
NextStore ==
    \/ \E name \in Names, host \in Hosts, port \in Ports, protocol \in Protocols :
         AddServer(name, host, port, protocol)
    \/ \E e \in Endpoints : RemoveServer(e)
    \/ \E e \in Endpoints : CheckOne(e)
    \/ ManualProbe
    \/ ManualRead
    \/ ManualWrite
    \/ \E e \in Endpoints : Toggle(e)
    \/ \E e \in Endpoints : Reset(e)

SpecStore == InitFresh /\ [][NextStore]_vars

\* one check_server call and the recording of its result
NextProbe ==
    \/ CheckPing
    \/ CheckPort
    \/ CheckRecorded

SpecProbe == InitProbe /\ [][NextProbe]_vars

\* one scheduler loop on one enabled endpoint, with database faults, while
\* chats subscribe and unsubscribe
NextNotify ==
    \/ \E l \in LoopIds : LoopStep(l)
    \/ \E l \in LoopIds : LoopFault(l)
    \/ \E l \in LoopIds : LoopBackoff(l)
    \/ \E c \in Chats : Subscribe(c)
    \/ \E c \in Chats : Unsubscribe(c)

SpecNotify == InitRunning({1}, {}) /\ [][NextNotify]_vars

\* one scheduler loop on every endpoint, never stopped, while endpoints are
\* deleted and toggled
NextCycle ==
    \/ \E l \in LoopIds : LoopStep(l)
    \/ \E l \in LoopIds : LoopBackoff(l)
    \/ \E e \in Endpoints : RemoveServer(e)
    \/ \E e \in Endpoints : Toggle(e)

SpecCycle == InitRunning(Endpoints, {}) /\ [][NextCycle]_vars

\* one scheduler loop on every endpoint and the stop command; no start command
\* and no fault
NextLive ==
    \/ \E l \in LoopIds : LoopStep(l)
    \/ Stop

\* every await of monitoring_loop returns (the sleeps are timers, the probes
\* have timeouts), so a loop that can take a step takes one
Scheduled == \A l \in LoopIds : WF_vars(LoopStep(l))

SpecLive == InitRunning(Endpoints, {1}) /\ [][NextLive]_vars /\ Scheduled

(* ---------------- properties ---------------- *)

Alive(l) == loop[l].pc \notin {"none", "done"}

Last(log) == log[Len(log)]

\* a notification of this kind is delivered for endpoint e in this step
Emits(e, kind) ==
    /\ Len(notifs'[e]) > Len(notifs[e])
    /\ Last(notifs'[e]) = kind

\* loop l takes a step (a stop command only marks the task)
Moves(l) == [loop'[l] EXCEPT !.stop_seen = loop[l].stop_seen] # loop[l]

\* the pass of "for server in servers" ran to its end (no break)
FullCycle(l) == loop[l].idx = Len(loop[l].servers) + 1

\* C1: for each endpoint, two down notifications are never emitted without a
\* recovery notification between them, nor two recovery notifications without
\* a down notification between them.
C1_Alternation ==
    \A e \in Endpoints : \A k \in 1..(Len(notifs[e]) - 1) :
        notifs[e][k] # notifs[e][k + 1]

\* C2: a down notification is emitted only by a loop whose cycle probe failed,
\* which then read consecutive_failures >= FAIL_THRESHOLD and notification_sent
\* false, and whose DOWN_CHECKS confirmation probes all failed; that loop emits
\* exactly one notification and its next database call writes
\* notification_sent = true.
C2_DownOnlyConfirmed ==
    [][/\ \A e \in Endpoints :
            Emits(e, "down") =>
              \E l \in LoopIds :
                /\ loop[l].pc = "send_down" /\ Cur(l) = e
                /\ ~loop[l].result
                /\ loop[l].upd.consecutive_failures >= FAIL_THRESHOLD
                /\ ~loop[l].upd.notification_sent
                /\ loop[l].failed = DOWN_CHECKS /\ loop[l].passed = 0
                /\ Len(notifs'[e]) = Len(notifs[e]) + 1
                /\ loop'[l].pc = "set_true"
       /\ \A l \in LoopIds :
            loop[l].pc = "set_true" /\ Moves(l) /\ loop'[l].pc # "backoff"
              => servers'[Cur(l)].notification_sent
      ]_vars

\* C2 witness: failures up to the threshold and two failed confirmation probes
\* have produced one down notification and the flag is set.
C2_Witness ==
    /\ notifs[1] = <<"down">>
    /\ servers[1].notification_sent
    /\ \E l \in LoopIds : loop[l].pc \in {"probe", "sleep"} /\ loop[l].idx = 2

\* C3: a recovery notification is emitted only by a loop whose cycle probe
\* succeeded while it read notification_sent true and whose CONFIRM_CHECKS
\* confirmation probes all succeeded; that loop emits exactly one notification
\* and its next database call writes notification_sent = false.
C3_RecoveryOnlyConfirmed ==
    [][/\ \A e \in Endpoints :
            Emits(e, "up") =>
              \E l \in LoopIds :
                /\ loop[l].pc = "send_up" /\ Cur(l) = e
                /\ loop[l].result
                /\ loop[l].upd.notification_sent
                /\ loop[l].passed = CONFIRM_CHECKS /\ loop[l].failed = 0
                /\ Len(notifs'[e]) = Len(notifs[e]) + 1
                /\ loop'[l].pc = "set_false"
       /\ \A l \in LoopIds :
            loop[l].pc = "set_false" /\ Moves(l) /\ loop'[l].pc # "backoff"
              => ~servers'[Cur(l)].notification_sent
      ]_vars

\* C3 witness: after a down alert, a successful probe and two successful
\* confirmation probes have produced the recovery notification and cleared
\* the flag.
C3_Witness ==
    /\ notifs[1] = <<"down", "up">>
    /\ ~servers[1].notification_sent
    /\ \E l \in LoopIds : loop[l].pc \in {"probe", "sleep"} /\ loop[l].idx = 2

\* C4 as claimed: when a down notification has just been emitted, the
\* FAIL_THRESHOLD + DOWN_CHECKS most recent probes of the endpoint all failed.
C4_FullStreak ==
    \A l \in LoopIds :
        loop[l].pc = "set_true" /\ Cur(l) \in DOMAIN run =>
            ~run[Cur(l)].ok /\ run[Cur(l)].n >= FAIL_THRESHOLD + DOWN_CHECKS

\* C4 amended: when a down notification has just been emitted, the loop read
\* consecutive_failures >= FAIL_THRESHOLD and its DOWN_CHECKS + 1 most recent
\* probes of the endpoint (the cycle probe and the confirmation probes) all
\* failed.
C4_ConfirmedStreak ==
    \A l \in LoopIds :
        loop[l].pc = "set_true" /\ Cur(l) \in DOMAIN run =>
            /\ ~run[Cur(l)].ok /\ run[Cur(l)].n >= DOWN_CHECKS + 1
            /\ loop[l].upd.consecutive_failures >= FAIL_THRESHOLD

\* C4 witness: an alert is emitted although a probe succeeded among the last
\* FAIL_THRESHOLD + DOWN_CHECKS (an earlier confirmation was aborted).
C4_Witness ==
    \E l \in LoopIds :
        /\ loop[l].pc = "set_true"
        /\ run[Cur(l)].n < FAIL_THRESHOLD + DOWN_CHECKS
        /\ loop[l].upd.consecutive_failures > FAIL_THRESHOLD

\* C5: at every moment at most one monitoring_loop task is alive.
C5_OneLoop == Cardinality({l \in LoopIds : Alive(l)}) <= 1

\* C6: a loop task is created, and monitoring_active set, only when
\* monitoring_active is false and some endpoint is active; a command answered
\* "already running", "no active endpoint" or "not running" changes neither.
C6_StartGuarded ==
    [][/\ spawned' # spawned =>
            /\ ~monitoring_active
            /\ get_active_servers(servers) # <<>>
            /\ monitoring_active' /\ spawned' = spawned + 1 /\ reply' = "started"
       /\ (~monitoring_active /\ monitoring_active') => spawned' = spawned + 1
       /\ (reply' # reply /\ reply' \in {"already", "no_servers", "not_running"})
            => UNCHANGED <<monitoring_active, spawned, loop>>
      ]_vars

\* C7: once a stop request has arrived while a loop was scanning, that loop
\* probes no further endpoint of the cycle's list, while a confirmation
\* sequence in progress goes on whatever monitoring_active is.
C7_StopHaltsScan ==
    [][\A l \in LoopIds :
         /\ (loop[l].stop_seen /\ loop[l].pc = "probe") => loop'[l].pc # "upd_read"
         /\ (loop[l].pc \in {"confirm_up", "confirm_down"} /\ Moves(l))
              => loop'[l].pc \in {"confirm_up", "confirm_down", "send_up",
                                  "send_down", "probe", "sleep"}
      ]_vars

\* C8: monitoring_active is cleared only by a stop command; an exception in
\* the loop leads to the backoff sleep and from there to the next
\* "while monitoring_active" test, and a task ends only at that test, when
\* monitoring_active is false.
C8_FaultKeepsSession ==
    [][/\ (monitoring_active /\ ~monitoring_active')
            => (commands' = commands + 1 /\ reply' = "stopped")
       /\ \A l \in LoopIds :
            /\ (loop[l].pc = "backoff" /\ Moves(l))
                 => (loop'[l].pc = "cycle" /\ loop'[l].slept = BACKOFF)
            /\ (loop[l].pc = "cycle" /\ monitoring_active /\ Moves(l))
                 => loop'[l].pc \in {"probe", "sleep", "backoff"}
            /\ (loop'[l].pc = "done" /\ Moves(l))
                 => (loop[l].pc = "cycle" /\ ~monitoring_active)
      ]_vars

\* C8 witness: after an exception the loop has slept the backoff and is at the
\* loop test again with the session still active.
C8_Witness ==
    \E l \in LoopIds :
        loop[l].pc = "cycle" /\ loop[l].slept = BACKOFF /\ monitoring_active

\* C9: after a full cycle the loop sleeps FAST_INTERVAL exactly when some
\* active endpoint has consecutive_failures >= FAIL_THRESHOLD at that moment.
C9_AdaptiveInterval ==
    [][\A l \in LoopIds :
         (loop[l].pc = "sleep" /\ FullCycle(l) /\ Moves(l)) =>
            (loop'[l].slept = FAST_INTERVAL
               <=> \E e \in Endpoints :
                     /\ servers[e].is_active
                     /\ servers[e].consecutive_failures >= FAIL_THRESHOLD)
      ]_vars

\* C10: total_checks == total_failures + successful checks recorded, and every
\* completed probe, confirmation probes included, adds exactly 1 to
\* total_checks.
C10_ChecksAccounted ==
    [][/\ \A e \in Endpoints :
            servers'[e].total_checks = servers'[e].total_failures + history'[e].ok
       /\ \A l \in LoopIds :
            (loop[l].pc \in {"confirm_up", "confirm_down"} /\ Moves(l))
              => servers'[Cur(l)].total_checks = servers[Cur(l)].total_checks + 1
      ]_vars

\* number of rows of check_history of one endpoint
Rows(h) == h.ok + h.fail

\* the manual check handler executes the UPDATE and INSERT of
\* update_server_status in this step
ManualWrites(e) == manual.pc = "write" /\ Head(manual.queue) = e /\ manual' # manual

\* loop l executes the UPDATE and INSERT of update_server_status in this step
LoopWrites(l, e) == loop[l].pc = "upd_write" /\ Cur(l) = e /\ Moves(l)

\* C11: every completed check of an endpoint, confirmation probes included,
\* appends exactly one history row, and the history of an endpoint changes
\* only by such an append or by reset_server_stats of that endpoint.
C11_HistoryPerCheck ==
    [][/\ \A l \in LoopIds :
            (loop[l].pc \in {"confirm_up", "confirm_down"} /\ Moves(l))
              => Rows(history'[Cur(l)]) = Rows(history[Cur(l)]) + 1
       /\ \A e \in Endpoints :
            history'[e] # history[e] =>
              \/ Reset(e)
              \/ /\ Rows(history'[e]) = Rows(history[e]) + 1
                 /\ history'[e].ok >= history[e].ok
                 /\ history'[e].fail >= history[e].fail
      ]_vars

\* C12: a recorded check leaves consecutive_failures at 0 when it succeeded
\* and at the previous stored value plus 1 when it failed, and last_status
\* equal to its availability; consecutive_failures is never negative.
C12_StreakStep ==
    [][\A e \in Endpoints :
         /\ servers'[e].consecutive_failures >= 0
         /\ \A l \in LoopIds : LoopWrites(l, e) =>
              /\ servers'[e].last_status = loop[l].result
              /\ servers'[e].consecutive_failures =
                   IF loop[l].result THEN 0 ELSE servers[e].consecutive_failures + 1
         /\ ManualWrites(e) =>
              /\ servers'[e].last_status = manual.result
              /\ servers'[e].consecutive_failures =
                   IF manual.result THEN 0 ELSE servers[e].consecutive_failures + 1
      ]_vars

\* C13: overlapping update_server_status calls lose no update: total_checks
\* of every endpoint equals the number of its history rows.
C13_NoLostUpdate ==
    \A e \in Endpoints : servers[e].total_checks = Rows(history[e])

\* C14: the counters of an endpoint (total_checks, total_failures,
\* consecutive_failures, last_status) change only in the update_server_status
\* of a scheduler loop; no chat-command handler changes them.
C14_ScannerOnly ==
    [][\A e \in Endpoints :
         (\/ servers'[e].total_checks # servers[e].total_checks
          \/ servers'[e].total_failures # servers[e].total_failures
          \/ servers'[e].consecutive_failures # servers[e].consecutive_failures
          \/ servers'[e].last_status # servers[e].last_status)
           => \E l \in LoopIds : LoopWrites(l, e)
      ]_vars

\* C15: reset_server_stats of an endpoint zeroes its three counters, clears
\* notification_sent and deletes its history rows; its is_active and
\* last_status and every other endpoint's row and history stay as they were.
C15_ResetFrame ==
    [][\A e \in Endpoints : Reset(e) =>
         /\ servers'[e].total_checks = 0
         /\ servers'[e].total_failures = 0
         /\ servers'[e].consecutive_failures = 0
         /\ ~servers'[e].notification_sent
         /\ Rows(history'[e]) = 0
         /\ servers'[e].is_active = servers[e].is_active
         /\ servers'[e].last_status = servers[e].last_status
         /\ \A x \in Endpoints \ {e} :
              servers'[x] = servers[x] /\ history'[x] = history[x]
      ]_vars

\* C15 witness: the statistics of endpoint 1 were reset after its down alert
\* (counters zero, no history, flag clear, last_status still false) while
\* endpoint 2 keeps the counters and rows it had.
C15_Witness ==
    /\ notifs[1] = <<"down">>
    /\ servers[1].total_checks = 0 /\ servers[1].consecutive_failures = 0
    /\ ~servers[1].notification_sent /\ ~servers[1].last_status
    /\ history[1] = NoHistory
    /\ servers[2].total_checks = PriorFailures /\ Rows(history[2]) = PriorFailures

\* C16: once an endpoint has been deleted, no check_history row with its id
\* remains.
C16_NoOrphanHistory ==
    \A id \in 1..lastrowid : id \notin DOMAIN servers => Rows(history[id]) = 0

\* C17: no two endpoints share (host, port); a row is inserted only for a
\* pair no stored endpoint has; an add_server of a stored pair, whatever its
\* name and protocol, is answered "already exists" and changes nothing in the
\* store.
C17_UniqueAddress ==
    [][/\ \A x, y \in DOMAIN identity' :
            (identity'[x].host = identity'[y].host
               /\ identity'[x].port = identity'[y].port) => x = y
       /\ \A id \in DOMAIN identity' \ DOMAIN identity :
            \A x \in DOMAIN identity :
                ~(identity[x].host = identity'[id].host
                    /\ identity[x].port = identity'[id].port)
       /\ \A name \in Names, host \in Hosts, port \in Ports, protocol \in Protocols :
            (/\ AddServer(name, host, port, protocol)
             /\ \E x \in DOMAIN identity :
                  identity[x].host = host /\ identity[x].port = port)
              => /\ reply' = "exists"
                 /\ UNCHANGED <<servers, identity, history, lastrowid>>
      ]_vars

\* C17 witness: with one endpoint stored, a second add was rejected and no
\* id was consumed.
C17_Witness ==
    /\ reply = "exists"
    /\ Cardinality(DOMAIN identity) = 1
    /\ lastrowid = 1

\* C18: check_server pings first; after a failed ping it returns the ping
\* layer's unavailable result (method "ping", its error) and runs no port
\* check; the port check chosen by the protocol runs only after a successful
\* ping, and then its result is the one returned.
C18_PingFirst ==
    /\ check.pc \in {"port", "done", "recorded"} => check.calls[1] = "ping"
    /\ check.pc = "port" => check.ping = "exit0"
    /\ check.pc \in {"done", "recorded"} =>
         IF check.ping # "exit0"
         THEN /\ check.calls = <<"ping">>
              /\ ~check.result.is_available
              /\ check.result.method = "ping"
              /\ check.result.error \in {"Ping failed", "Timeout", "str(e)"}
         ELSE /\ check.calls = <<"ping", PortLayer(check.protocol)>>
              /\ check.result.method = PortLayer(check.protocol)
              /\ check.result = IF check.protocol \in {"tcp", "TCP"}
                                THEN check_tcp_port(check.tcp)
                                ELSE check_udp_port(check.udp, check.executor)

\* C18 witness: the ping of a udp endpoint timed out and the check ended
\* there, with the ping layer's result and no port check.
C18_Witness ==
    /\ check.pc = "done"
    /\ check.protocol = "udp" /\ check.ping = "timeout"
    /\ check.calls = <<"ping">>
    /\ check.result = CheckResult(FALSE, "ping", "None", "Timeout")

\* C19: a udp check whose ping succeeded and whose datagram got no reply
\* within the timeout returns available without error, and recording it
\* leaves consecutive_failures at 0.
C19_UdpSilenceAvailable ==
    (/\ check.pc \in {"done", "recorded"}
     /\ PortLayer(check.protocol) = "udp"
     /\ check.ping = "exit0"
     /\ check.udp = "silence")
      => /\ check.result.is_available
         /\ check.result.error = "None"
         /\ check.pc = "recorded" => check.streak = 0

\* the chat ids of a list
Range(list) == {list[k] : k \in 1..Len(list)}

Sending(l) == loop[l].pc \in {"send_up", "send_down"}

\* C20: send_notification_to_all takes the chats active when it fetches the
\* list, calls bot.send_message once for each of them, in the order of the
\* list, whether or not earlier calls failed, and the set_notification_sent
\* that follows writes the same flag whatever the deliveries did.
C20_FanOut ==
    [][\A l \in LoopIds :
         /\ (Sending(l) /\ loop[l].chats = <<>> /\ Moves(l) /\ loop'[l].pc # "backoff")
              => /\ Range(loop'[l].chats) = subscribers
                 /\ Len(loop'[l].chats) = Cardinality(subscribers)
                 /\ loop'[l].sent = <<>>
         /\ (Sending(l) /\ loop[l].chats # <<>> /\ Moves(l))
              => /\ loop'[l].chats = loop[l].chats
                 /\ loop'[l].sent =
                      Append(loop[l].sent, loop[l].chats[Len(loop[l].sent) + 1])
                 /\ loop'[l].pc =
                      IF Len(loop'[l].sent) < Len(loop[l].chats) THEN loop[l].pc
                      ELSE IF loop[l].pc = "send_up" THEN "set_false" ELSE "set_true"
         /\ (Sending(l) /\ loop'[l].pc \in {"set_false", "set_true"})
              => loop'[l].sent = loop'[l].chats
         /\ (loop[l].pc \in {"set_false", "set_true"} /\ Moves(l)
               /\ loop'[l].pc # "backoff")
              => servers'[Cur(l)].notification_sent = (loop[l].pc = "set_true")
      ]_vars

\* C20 witness: a down notification went to two subscribers, the delivery to
\* the first failed, the second was attempted all the same, and the flag has
\* been written.
C20_Witness ==
    \E l \in LoopIds :
        /\ loop[l].pc = "set_true"
        /\ Len(loop[l].chats) = 2 /\ loop[l].sent = loop[l].chats
        /\ loop[l].lost = {loop[l].chats[1]}

\* C21: notification_sent true means that the latest notification emitted
\* for the endpoint is a down alert, and the flag goes from true to false
\* only in the step of a loop whose up-confirmation sequence fully succeeded.
C21_FlagMeansDown ==
    [][\A e \in Endpoints :
         /\ servers'[e].notification_sent
              => (notifs'[e] # <<>> /\ Last(notifs'[e]) = "down")
         /\ (servers[e].notification_sent /\ ~servers'[e].notification_sent)
              => \E l \in LoopIds :
                   /\ loop[l].pc = "set_false" /\ Cur(l) = e /\ Moves(l)
                   /\ loop[l].passed = CONFIRM_CHECKS /\ loop[l].failed = 0
      ]_vars

\* C22: when a probe of a down-confirmation sequence succeeds, the sequence
\* ends there: no notification is emitted, the row of the endpoint
\* (consecutive_failures, notification_sent false) is left as it was, and the
\* loop moves on to the next endpoint of its list.
C22_DownAbortFrame ==
    [][\A l \in LoopIds :
         (loop[l].pc = "confirm_down" /\ Moves(l) /\ run'[Cur(l)].ok) =>
            /\ notifs' = notifs
            /\ servers' = servers
            /\ ~servers'[Cur(l)].notification_sent
            /\ loop'[l].pc \in {"probe", "sleep"}
            /\ loop'[l].idx = loop[l].idx + 1
            /\ loop'[l].i = 0
      ]_vars

\* C22 witness: the loop has left endpoint 1 after a down-confirmation that a
\* successful probe aborted: the stored streak is at the threshold, nothing
\* was announced and the flag is false.
C22_Witness ==
    /\ \E l \in LoopIds : loop[l].pc = "sleep" /\ loop[l].idx = 2
    /\ run[1].ok
    /\ servers[1].consecutive_failures = FAIL_THRESHOLD
    /\ ~servers[1].last_status /\ ~servers[1].notification_sent
    /\ notifs[1] = <<>>
    /\ manual.pc = "idle" /\ commands = 1

\* C23: when a probe of an up-confirmation sequence fails, the sequence ends
\* without a notification and without a change of the row; no down
\* notification is emitted for an endpoint whose notification_sent is true;
\* and a successful cycle probe of an endpoint whose flag is true starts an
\* up-confirmation sequence from its first probe.
C23_RecoveryAbortSilent ==
    [][/\ \A l \in LoopIds :
            (/\ loop[l].pc = "confirm_up" /\ Moves(l)
             /\ Cur(l) \in DOMAIN run /\ ~run'[Cur(l)].ok) =>
               /\ notifs' = notifs
               /\ servers' = servers
               /\ loop'[l].pc \in {"probe", "sleep"}
       /\ \A e \in Endpoints :
            Emits(e, "down") => ~servers[e].notification_sent
       /\ \A l \in LoopIds :
            (/\ loop[l].pc = "get" /\ Moves(l) /\ loop'[l].pc # "backoff"
             /\ loop[l].result /\ servers[Cur(l)].notification_sent) =>
               /\ loop'[l].pc = "confirm_up"
               /\ loop'[l].i = 0 /\ loop'[l].passed = 0 /\ loop'[l].failed = 0
      ]_vars

\* C24: the error shown by a down notification is the error of the latest
\* probe of the endpoint, that of the last down-confirmation probe.
C24_LatestError ==
    \A l \in LoopIds :
        (loop[l].pc = "set_true" /\ Cur(l) \in DOMAIN run)
          => loop[l].text_error = loop[l].latest

\* C25: at every cycle boundary, reached normally or through the exception
\* handler, notification_sent of an endpoint is true exactly when the latest
\* notification delivered for it is a down alert, and no transition is
\* announced twice in a row.
C25_NotifyAtomic ==
    (\E l \in LoopIds : loop[l].pc = "cycle") =>
        \A e \in Endpoints :
            /\ servers[e].notification_sent
                 <=> (notifs[e] # <<>> /\ Last(notifs[e]) = "down")
            /\ \A k \in 1..(Len(notifs[e]) - 1) : notifs[e][k] # notifs[e][k + 1]

\* C26: a cycle that no stop request interrupts probes the endpoints of the
\* list it fetched one after the other in the order of the list (ascending
\* id), each once, and ends only after the last of them, also when an
\* endpoint of the list is deleted or disabled meanwhile.
C26_CycleCoversList ==
    [][\A l \in LoopIds :
         /\ (loop[l].pc = "cycle" /\ Moves(l)) =>
              \A a, b \in 1..Len(loop'[l].servers) :
                  a < b => loop'[l].servers[a] < loop'[l].servers[b]
         /\ (loop[l].pc \in MidScan /\ Moves(l)) =>
              /\ loop'[l].servers = loop[l].servers
              /\ loop'[l].idx \in {loop[l].idx, loop[l].idx + 1}
              /\ loop'[l].pc = "probe" => loop'[l].idx = loop[l].idx + 1
              /\ loop'[l].pc \notin MidScan =>
                   (loop'[l].pc = "sleep" /\ loop'[l].idx = Len(loop[l].servers) + 1)
      ]_vars

\* C27: whatever the interleaving of status updates (their read and their
\* write apart) and statistics resets, every endpoint keeps
\* 0 <= consecutive_failures <= total_failures <= total_checks.
C27_CounterOrder ==
    \A e \in DOMAIN servers :
        /\ 0 <= servers[e].consecutive_failures
        /\ servers[e].consecutive_failures <= servers[e].total_failures
        /\ servers[e].total_failures <= servers[e].total_checks

\* a manual update read the counters, a reset zeroed them, and the loop's
\* update read the zeroes: both writes are pending
C27_Witness ==
    /\ manual.pc = "write"
    /\ Head(manual.queue) = 1
    /\ manual.rd.total_checks = PriorFailures
    /\ servers[1].total_checks = 0
    /\ loop[1].pc = "upd_write"
    /\ loop[1].rd.total_checks = 0

\* the loop is about to run the cycle probe of endpoint e
AtProbe(l, e) ==
    /\ loop[l].pc = "probe"
    /\ loop[l].idx \in 1..Len(loop[l].servers)
    /\ Cur(l) = e

\* failing cycle probes an unalerted row still needs before the confirmation
Needed(row) ==
    IF row.consecutive_failures >= FAIL_THRESHOLD - 1
    THEN 1 ELSE FAIL_THRESHOLD - row.consecutive_failures

\* the latest scheduler probe of endpoint e, made since the loop last stood
\* before e's cycle probe, had this outcome
Since(l, e, ok) == run[e].n > 0 /\ run[e].ok = ok /\ ~AtProbe(l, e)

\* C28: while the session stays active, with one loop and no fault: once the
\* loop stands before the cycle probe of an enabled endpoint that is not
\* alerted, either a later probe of it succeeds or the down notification is
\* emitted and notification_sent becomes true; and once it stands before the
\* cycle probe of an alerted endpoint, either a later probe of it fails or the
\* recovery notification is emitted and notification_sent becomes false.
C28_AlertLiveness ==
    /\ (/\ AtProbe(1, 1) /\ monitoring_active
        /\ ~servers[1].notification_sent
        /\ servers[1].total_checks + Needed(servers[1]) <= MaxChecks
        /\ Len(notifs[1]) < MaxNotifs)
         ~> (\/ servers[1].notification_sent /\ notifs[1] # <<>> /\ Last(notifs[1]) = "down"
             \/ Since(1, 1, TRUE)
             \/ ~monitoring_active)
    /\ (/\ AtProbe(1, 1) /\ monitoring_active
        /\ servers[1].notification_sent
        /\ servers[1].total_checks < MaxChecks
        /\ Len(notifs[1]) < MaxNotifs)
         ~> (\/ ~servers[1].notification_sent /\ notifs[1] # <<>> /\ Last(notifs[1]) = "up"
             \/ Since(1, 1, FALSE)
             \/ ~monitoring_active)

\* the outage was announced after three failed probes and the recovery after
\* three successful ones
C28_Witness ==
    /\ monitoring_active
    /\ notifs[1] = <<"down", "up">>
    /\ ~servers[1].notification_sent
    /\ run[1] = [ok |-> TRUE, n |-> 1 + CONFIRM_CHECKS]

\* the loop is inside the pass of "for server in servers" for one endpoint,
\* past the test of the flag
InProgress(l) == loop[l].pc \in MidScan \ {"probe"}

\* C29: once the session is stopped and not started again, every loop
\* eventually ends; until then a loop only finishes the endpoint it was working
\* on: it starts no other endpoint, and counters, history, notifications and
\* probes change for that endpoint alone.
C29_StopTerminates ==
    /\ ~monitoring_active ~> (\A l \in LoopIds : ~Alive(l))
    /\ [][~monitoring_active =>
            /\ \A l \in LoopIds :
                  /\ loop[l].pc = "probe" => loop'[l].pc \in {"probe", "sleep"}
                  /\ (Alive(l) /\ loop'[l].pc \in MidScan \ {"probe"}) =>
                        (InProgress(l) /\ loop'[l].idx = loop[l].idx)
            /\ <<servers, history, notifs, run>>' # <<servers, history, notifs, run>> =>
                  \E l \in LoopIds :
                      /\ InProgress(l)
                      /\ \A e \in Endpoints \ {Cur(l)} :
                            /\ e \in DOMAIN servers => servers'[e] = servers[e]
                            /\ history'[e] = history[e]
                            /\ notifs'[e] = notifs[e]
                            /\ e \in DOMAIN run => run'[e] = run[e]
       ]_vars

\* the stop came while endpoint 1 was in progress: its update was written,
\* endpoint 2 was never probed, and the loop has ended
C29_Witness ==
    /\ ~monitoring_active
    /\ loop[1].pc = "done"
    /\ servers[1].total_checks = PriorFailures + 1
    /\ servers[2].total_checks = PriorFailures
    /\ Rows(history[1]) = PriorFailures + 1
    /\ Rows(history[2]) = PriorFailures

\* the alert flag of every stored endpoint is the same after the step
FlagsKept ==
    /\ DOMAIN servers' = DOMAIN servers
    /\ \A e \in DOMAIN servers :
          servers'[e].notification_sent = servers[e].notification_sent

\* C30: no step of a manual check (callback_check_server, cmd_check_all)
\* delivers a notification, runs a confirmation probe, moves the scheduler or
\* changes notification_sent; update_server_status, whoever calls it, leaves
\* notification_sent as it was; set_notification_sent changes nothing but
\* notification_sent: counters, last_status and history stay.
C30_ManualFrame ==
    [][/\ manual' # manual =>
            (notifs' = notifs /\ run' = run /\ loop' = loop /\ FlagsKept)
       /\ \A l \in LoopIds :
            (loop[l].pc = "upd_write" /\ Moves(l)) => (FlagsKept /\ notifs' = notifs)
       /\ \A l \in LoopIds :
            (loop[l].pc \in {"set_false", "set_true"} /\ Moves(l)) =>
                /\ history' = history
                /\ servers' = FlagWritten(servers, Cur(l), servers'[Cur(l)].notification_sent)
      ]_vars

\* a manual check has written the failure that completes the streak, before
\* the scheduler took any step: no notification, the flag is still false
C30_Witness ==
    /\ manual.pc = "idle"
    /\ loop[1].pc = "cycle"
    /\ loop[1].slept = 0
    /\ servers[1].consecutive_failures = FAIL_THRESHOLD
    /\ ~servers[1].notification_sent
    /\ notifs[1] = <<>>

====
